---- MODULE Spec2Model ----
(***************************************************************************)
(* Model of pycalcstats' statistics.py: the exact summation engine (sum,   *)
(* _exact_ratio, _decimal_to_ratio, _coerce_types), the averages built on  *)
(* it (mean, median, median_low, median_high, median_grouped, mode) and    *)
(* the variances (_ss, variance, pvariance); and of the quartile schemes   *)
(* of _stats_quantiles.py (inclusive, exclusive, ms, minitab, excel) with  *)
(* the registries of quartile and quantile schemes and their aliases.      *)
(*                                                                         *)
(* A Python number is a record [k, n, d, e, x]:                            *)
(*   k  the type ("int", "Fraction", "Decimal", "float", ...),             *)
(*   n, d, e  the value n/d * 10^e (e # 0 only for Decimal, whose          *)
(*      as_tuple() is the sign and digits of n and the exponent e),        *)
(*   d = 0 marks a non-finite float or Decimal: n = 1 is +inf, n = -1 is   *)
(*      -inf, n = 0 is NaN,                                                *)
(*   x  TRUE when the stored number is exactly n/d * 10^e, FALSE when it   *)
(*      is that quotient rounded to the type's precision (a float that is  *)
(*      not a dyadic rational, a Decimal that needs more than the          *)
(*      context's digits).                                                 *)
(* Non-numeric objects (str, list, tuple) carry only their type.           *)
(***************************************************************************)
EXTENDS Integers, Sequences, FiniteSets, TLC

VARIABLES data, start, interval, isIter, decimalRatioAttr, kinds,
          center, rounding, scheme, maxModes,
          pc, op, i, T, partials, special, outcome

vars == <<data, start, interval, isIter, decimalRatioAttr, kinds,
          center, rounding, scheme, maxModes,
          pc, op, i, T, partials, special, outcome>>

(* ---------------- bounds of the model ---------------- *)

MaxLen == 3

(* ---------------- integer helpers ---------------- *)

Abs(a) == IF a < 0 THEN -a ELSE a

Max(a, b) == IF a < b THEN b ELSE a

Min(a, b) == IF a < b THEN a ELSE b

RECURSIVE Gcd(_, _)
Gcd(a, b) == IF b = 0 THEN Abs(a) ELSE Gcd(b, a % b)

RECURSIVE Pow10(_)
Pow10(m) == IF m = 0 THEN 1 ELSE 10 * Pow10(m - 1)

RECURSIVE Strip(_, _)
Strip(m, p) == IF m % p = 0 THEN Strip(m \div p, p) ELSE m

RECURSIVE Mult(_, _)
Mult(m, p) == IF m % p = 0 THEN 1 + Mult(m \div p, p) ELSE 0

IsPow2(m) == Strip(m, 2) = 1

(* ---------------- Python values ---------------- *)

Num(k, n, d, e, x) == [k |-> k, n |-> n, d |-> d, e |-> e, x |-> x]

PyInt(n) == Num("int", n, 1, 0, TRUE)

PyFraction(n, d) == Num("Fraction", n \div Gcd(n, d), d \div Gcd(n, d), 0, TRUE)

PyFloat(n, d) == Num("float", n \div Gcd(n, d), d \div Gcd(n, d), 0, IsPow2(d \div Gcd(n, d)))

PyDecimal(n, e) == Num("Decimal", n, 1, e, TRUE)

FloatInf == Num("float", 1, 0, 0, TRUE)

FloatNegInf == Num("float", -1, 0, 0, TRUE)

FloatNaN == Num("float", 0, 0, 0, TRUE)

DecimalInf == Num("Decimal", 1, 0, 0, TRUE)

DecimalNegInf == Num("Decimal", -1, 0, 0, TRUE)

PyObject(k) == Num(k, 0, 1, 0, TRUE)

NoVal == Num("none", 0, 1, 0, TRUE)

NumericKinds == {"int", "Fraction", "Decimal", "float"}

NonNumericKinds == {"str", "list", "tuple"}

IsFinite(v) == v.d # 0

(* The value of a finite number as a fraction in lowest terms. *)
RatNum(v) == IF v.e > 0 THEN v.n * Pow10(v.e) ELSE v.n

RatDen(v) == IF v.e < 0 THEN v.d * Pow10(-v.e) ELSE v.d

Val(v) == <<RatNum(v) \div Gcd(RatNum(v), RatDen(v)), RatDen(v) \div Gcd(RatNum(v), RatDen(v))>>

(* Results of calls: a returned value or the exception raised. *)
Returned(v) == [tag |-> "ok", val |-> v]

Raised(exc) == [tag |-> exc, val |-> NoVal]

NoOutcome == [tag |-> "none", val |-> NoVal]

(* class StatisticsError(ValueError): the base class of an exception. *)
ExceptionBase(exc) == IF exc = "StatisticsError" THEN "ValueError" ELSE "Exception"

(* ---------------- Python's type lattice ---------------- *)

(* T.__base__ for the types of the model. *)
BaseOf(K) ==
    CASE K = "bool" -> "int"
      [] K = "Fraction" -> "Rational"
      [] OTHER -> "object"

(* issubclass(A, B) among the types of the model. *)
IsSubclass(A, B) == A = B \/ (A = "bool" /\ B = "int")

(* _coerce_types with its last rule answering the second type for any two
   unrelated types. *)
CoerceTypes_secondWins(T1, T2) ==
    IF T1 = T2 THEN T1
    ELSE IF T1 = "int" THEN T2
    ELSE IF T2 = "int" THEN T1
    ELSE IF IsSubclass(T2, T1) THEN T2
    ELSE IF IsSubclass(T1, T2) THEN T1
    ELSE IF IsSubclass(T2, "float") THEN T2
    ELSE IF IsSubclass(T1, "float") THEN T1
    ELSE T2

(* _coerce_types(T1, T2): the common type, or "TypeError". *)
CoerceTypes(T1, T2) ==
    IF T1 = T2 THEN T1
    ELSE IF T1 = "int" THEN T2
    ELSE IF T2 = "int" THEN T1
    ELSE IF IsSubclass(T2, T1) THEN T2
    ELSE IF IsSubclass(T1, T2) THEN T1
    ELSE IF IsSubclass(T2, "float") THEN T2
    ELSE IF IsSubclass(T1, "float") THEN T1
    ELSE IF BaseOf(T1) = BaseOf(T2) THEN T2
    ELSE "TypeError"

(* ---------------- _exact_ratio and _decimal_to_ratio ---------------- *)

(* A denominator as a key of partials: a positive integer is itself, None is
   0, and the float 10**-e that _decimal_to_ratio computes for a positive
   exponent e is -e. *)
NoneKey == 0

FloatKey(e) == -e

(* The decimal digits of a natural number, most significant first
   (the digits of Decimal.as_tuple()). *)
RECURSIVE DigitsOf(_)
DigitsOf(m) == IF m < 10 THEN <<m>> ELSE Append(DigitsOf(m \div 10), m % 10)

(* Decimal.as_tuple(): sign, digits, exponent ("F" for an infinity, "n" for
   a NaN). *)
AsTuple(v) ==
    [sign |-> IF v.n < 0 THEN 1 ELSE 0,
     digits |-> IF IsFinite(v) THEN DigitsOf(Abs(v.n)) ELSE <<0>>,
     special |-> IF IsFinite(v) THEN "" ELSE IF v.n = 0 THEN "n" ELSE "F",
     exp |-> IF IsFinite(v) THEN v.e ELSE 0]

(* The loop "for digit in digits: num = num*10 + digit". *)
RECURSIVE DigitsToNum(_, _)
DigitsToNum(digits, num) ==
    IF digits = <<>> THEN num
    ELSE DigitsToNum(Tail(digits), num * 10 + Head(digits))

Ratio(n, d) == [tag |-> "ratio", n |-> n, d |-> d]

(* _decimal_to_ratio(d): (num, den), or ValueError for INF and NAN. *)
DecimalToRatio(v) ==
    LET t == AsTuple(v)
        num == DigitsToNum(t.digits, 0)
    IN  IF t.special # "" THEN [tag |-> "ValueError", n |-> 0, d |-> 0]
        ELSE Ratio(IF t.sign = 1 THEN -num ELSE num,
                   IF t.exp <= 0 THEN Pow10(-t.exp) ELSE FloatKey(t.exp))

(* x.as_integer_ratio() of a float, or of a Decimal where the runtime gives
   Decimal that method: the ratio in lowest terms; OverflowError or
   ValueError for INF and NAN. *)
AsIntegerRatio(v) ==
    IF ~IsFinite(v) THEN [tag |-> "ValueError", n |-> 0, d |-> 0]
    ELSE Ratio(Val(v)[1], Val(v)[2])

(* _exact_ratio answering (0, 1) for an object that is no number. *)
ExactRatio_noTypeError(v, ratioAttr) ==
    LET r == IF v.k \in {"int", "bool", "Fraction"} THEN Ratio(v.n, v.d)
             ELSE IF v.k = "float" \/ (v.k = "Decimal" /\ ratioAttr) THEN AsIntegerRatio(v)
             ELSE IF v.k = "Decimal" THEN DecimalToRatio(v)
             ELSE Ratio(0, 1)
    IN  IF r.tag = "ValueError" THEN [tag |-> "special", n |-> 0, d |-> NoneKey] ELSE r

(* _exact_ratio(x): tag "ratio" with (n, d), tag "special" for (x, None),
   or tag "TypeError". ratioAttr tells whether Decimal has the method
   as_integer_ratio in the running Python. *)
ExactRatio(v, ratioAttr) ==
    LET r == IF v.k \in {"int", "bool", "Fraction"} THEN Ratio(v.n, v.d)
             ELSE IF v.k = "float" \/ (v.k = "Decimal" /\ ratioAttr) THEN AsIntegerRatio(v)
             ELSE IF v.k = "Decimal" THEN DecimalToRatio(v)
             ELSE [tag |-> "TypeError", n |-> 0, d |-> 0]
    IN  IF r.tag = "ValueError" THEN [tag |-> "special", n |-> 0, d |-> NoneKey] ELSE r

(* ---------------- sum ---------------- *)

EmptyPartials == [k \in {} |-> 0]

(* partials.get(d, 0) *)
PartialsGet(p, d) == IF d \in DOMAIN p THEN p[d] ELSE 0

(* The update of line 175 storing the new numerator in place of the sum. *)
PartialsAdd_overwrite(p, d, n) ==
    [k \in DOMAIN p \cup {d} |-> IF k = d THEN n ELSE p[k]]

(* partials[d] = partials_get(d, 0) + n, for an integer numerator. *)
PartialsAdd(p, d, n) ==
    [k \in DOMAIN p \cup {d} |-> IF k = d THEN PartialsGet(p, d) + n ELSE p[k]]

(* partials[None] = partials_get(None, 0) + x for a non-finite x: Python's +
   on the accumulated non-finite value (NoVal: no entry yet, so 0 + x).
   float + Decimal is a TypeError; Decimal INF + -INF signals
   InvalidOperation, which the default decimal context traps. *)
SpecialAdd(acc, v) ==
    IF acc = NoVal THEN Returned(v)
    ELSE IF acc.k # v.k THEN Raised("TypeError")
    ELSE IF acc.n = 0 \/ v.n = 0 THEN Returned(Num(v.k, 0, 0, 0, TRUE))
    ELSE IF acc.n = v.n THEN Returned(v)
    ELSE IF v.k = "Decimal" THEN Raised("InvalidOperation")
    ELSE Returned(FloatNaN)

(* The locals of sum: T, partials (the integer keys), partials[None] and
   the exception that ended the call, if any. *)
SumState(T0, p, sp, err) == [T |-> T0, partials |-> p, special |-> sp, err |-> err]

(* sum beginning with partials = {}, the start left out. *)
SumStart_noStart(s, ratioAttr) ==
    LET r == ExactRatio(s, ratioAttr)
    IN  CASE r.tag = "TypeError" -> SumState(s.k, EmptyPartials, NoVal, "TypeError")
          [] r.tag = "special" -> SumState(s.k, EmptyPartials, s, "")
          [] OTHER -> SumState(s.k, EmptyPartials, NoVal, "")

(* Lines 164-166: n, d = _exact_ratio(start); T = type(start);
   partials = {d: n}. *)
SumStart(s, ratioAttr) ==
    LET r == ExactRatio(s, ratioAttr)
    IN  CASE r.tag = "TypeError" -> SumState(s.k, EmptyPartials, NoVal, "TypeError")
          [] r.tag = "special" -> SumState(s.k, EmptyPartials, s, "")
          [] OTHER -> SumState(s.k, PartialsAdd(EmptyPartials, r.d, r.n), NoVal, "")

(* Lines 173-175: one pass of the loop over data. *)
SumFold(st, v, ratioAttr) ==
    LET T2 == CoerceTypes(st.T, v.k)
        r == ExactRatio(v, ratioAttr)
        sp == SpecialAdd(st.special, v)
    IN  IF T2 = "TypeError" THEN [st EXCEPT !.err = "TypeError"]
        ELSE IF r.tag = "TypeError" THEN [st EXCEPT !.T = T2, !.err = "TypeError"]
        ELSE IF r.tag = "special"
             THEN IF sp.tag = "ok"
                  THEN [st EXCEPT !.T = T2, !.special = sp.val]
                  ELSE [st EXCEPT !.T = T2, !.err = sp.tag]
        ELSE [st EXCEPT !.T = T2, !.partials = PartialsAdd(st.partials, r.d, r.n)]

(* Fraction.__add__ on fractions <<numerator, denominator>> in lowest terms. *)
FractionAdd(a, b) ==
    LET n == a[1] * b[2] + b[1] * a[2]
        d == a[2] * b[2]
    IN  <<n \div Gcd(n, d), d \div Gcd(n, d)>>

(* Fraction(n, d) for integers n and d > 0. *)
FractionOf(n, d) == <<n \div Gcd(n, d), d \div Gcd(n, d)>>

(* Lines 180-182: total += Fraction(n, d) over sorted(partials.items());
   keys is the set of keys not yet added. *)
RECURSIVE SumTotal(_, _, _)
SumTotal(p, keys, total) ==
    IF keys = {} THEN total
    ELSE LET d == CHOOSE k \in keys : \A j \in keys : k <= j
         IN  SumTotal(p, keys \ {d}, FractionAdd(total, FractionOf(p[d], d)))

(* Decimal division of the integer ratio p/r scaled by 10^e0: exact, with
   the fewest digits, when the quotient is a finite decimal; else rounded
   to the context's precision. *)
DecimalQuotient(p, r, e0) ==
    LET q == FractionOf(p, r)
        k == Max(Mult(q[2], 2), Mult(q[2], 5))
    IN  IF Strip(Strip(q[2], 2), 5) # 1 THEN Num("Decimal", q[1], q[2], e0, FALSE)
        ELSE Num("Decimal", (q[1] * Pow10(k)) \div q[2], 1, e0 - k, TRUE)

(* Lines 176-188: the value sum returns from its locals. *)
SumReturn(st) ==
    IF st.special # NoVal
    THEN IF st.T \notin {"float", "Decimal"} THEN Raised("AssertionError")
         ELSE Returned([st.special EXCEPT !.k = st.T])
    ELSE IF \E k \in DOMAIN st.partials : k < 0 THEN Raised("TypeError")
    ELSE LET total == SumTotal(st.partials, DOMAIN st.partials, <<0, 1>>)
         IN  IF st.T \in {"int", "bool"}
             THEN IF total[2] # 1 THEN Raised("AssertionError")
                  ELSE Returned(Num(st.T, total[1], 1, 0, TRUE))
             ELSE IF st.T = "Decimal" THEN Returned(DecimalQuotient(total[1], total[2], 0))
             ELSE IF st.T = "Fraction" THEN Returned(PyFraction(total[1], total[2]))
             ELSE Returned(PyFloat(total[1], total[2]))

(* sum(data, start) as one call. *)
RECURSIVE SumLoopFrom(_, _, _)
SumLoopFrom(st, s, ratioAttr) ==
    IF st.err # "" THEN Raised(st.err)
    ELSE IF s = <<>> THEN SumReturn(st)
    ELSE SumLoopFrom(SumFold(st, Head(s), ratioAttr), Tail(s), ratioAttr)

Sum(s, s0, ratioAttr) == SumLoopFrom(SumStart(s0, ratioAttr), s, ratioAttr)

(* ---------------- the calls of sum, step by step ---------------- *)

SeqsUpTo(S, m) == UNION {[1..l -> S] : l \in 0..m}

SumValues ==
    {PyInt(1), PyFraction(1, 2), PyFraction(1, 3), PyDecimal(5, -1), PyDecimal(25, -2),
     PyFloat(1, 2), FloatInf, FloatNegInf, FloatNaN,
     PyObject("str"), PyObject("list"), PyObject("tuple")}

SumStarts == {PyInt(0), PyFraction(1, 2)}

IntValues == {PyInt(-2), PyInt(1), PyInt(3)}

IntStarts == {PyInt(0), PyInt(-1), PyInt(5)}

(* The arguments of the calls that the specification at hand does not make:
   no center (variance, pvariance), no quartile scheme, no max_modes. *)
OtherArguments ==
    /\ center = NoVal
    /\ rounding = 0
    /\ scheme = "none"
    /\ maxModes = 0

InitWith(D, S) ==
    /\ data \in D
    /\ start \in S
    /\ interval = PyInt(1)
    /\ isIter = FALSE
    /\ decimalRatioAttr \in BOOLEAN
    /\ kinds = <<"int", "int">>
    /\ OtherArguments
    /\ pc = "call"
    /\ op = "sum"
    /\ i = 0
    /\ T = "int"
    /\ partials = EmptyPartials
    /\ special = NoVal
    /\ outcome = NoOutcome

Init == InitWith(SeqsUpTo(SumValues, MaxLen), SumStarts)

InitInt == InitWith(SeqsUpTo(IntValues, MaxLen), IntStarts)

Locals == SumState(T, partials, special, "")

SetLocals(st) ==
    /\ T' = st.T
    /\ partials' = st.partials
    /\ special' = st.special
    /\ pc' = IF st.err # "" THEN "done" ELSE "loop"
    /\ outcome' = IF st.err # "" THEN Raised(st.err) ELSE outcome

(* sum, lines 164-166. *)
SumBegin ==
    /\ pc = "call"
    /\ op = "sum"
    /\ SetLocals(SumStart(start, decimalRatioAttr))
    /\ i' = 1
    /\ UNCHANGED <<data, start, interval, isIter, decimalRatioAttr, kinds, center, rounding, scheme, maxModes, op>>

(* sum, lines 172-175: the loop's pass over data[i]. *)
SumLoop ==
    /\ pc = "loop"
    /\ i <= Len(data)
    /\ SetLocals(SumFold(Locals, data[i], decimalRatioAttr))
    /\ i' = i + 1
    /\ UNCHANGED <<data, start, interval, isIter, decimalRatioAttr, kinds, center, rounding, scheme, maxModes, op>>

(* sum, lines 176-188: the loop is over. *)
SumEnd ==
    /\ pc = "loop"
    /\ i > Len(data)
    /\ pc' = "done"
    /\ outcome' = SumReturn(Locals)
    /\ UNCHANGED <<data, start, interval, isIter, decimalRatioAttr, kinds, center, rounding, scheme, maxModes, op,
                   i, T, partials, special>>

Next == SumBegin \/ SumLoop \/ SumEnd

Spec == Init /\ [][Next]_vars

SpecInt == InitInt /\ [][Next]_vars

(* Samples with non-finite floats and Decimals, and starts with an
   infinity. *)
InfValues ==
    {PyInt(1), PyFraction(1, 2), PyDecimal(5, -1), PyFloat(1, 2),
     FloatInf, FloatNegInf, FloatNaN, DecimalInf}

InfStarts == {PyInt(0), PyFraction(1, 2), PyFloat(1, 2), FloatInf}

InitInf == InitWith(SeqsUpTo(InfValues, MaxLen), InfStarts)

SpecInf == InitInf /\ [][Next]_vars

(* ---------------- Python arithmetic and ordering on numbers ---------------- *)

(* a < b and a == b, which Python decides on the exact values whatever the
   two numeric types; a NaN is neither less than nor equal to anything. *)
PyLess(a, b) ==
    IF IsFinite(a) /\ IsFinite(b) THEN RatNum(a) * RatDen(b) < RatNum(b) * RatDen(a)
    ELSE IF (~IsFinite(a) /\ a.n = 0) \/ (~IsFinite(b) /\ b.n = 0) THEN FALSE
    ELSE IF ~IsFinite(a) THEN a.n = -1 /\ ~(~IsFinite(b) /\ b.n = -1)
    ELSE b.n = 1

PyEq(a, b) ==
    IF IsFinite(a) /\ IsFinite(b) THEN Val(a) = Val(b)
    ELSE ~IsFinite(a) /\ ~IsFinite(b) /\ a.n = b.n /\ a.n # 0

(* A float holding the quotient n/d, exactly when the operands were exact
   and the quotient is a dyadic rational. *)
FloatResult(n, d, exact) ==
    LET q == FractionOf(n, d) IN Num("float", q[1], q[2], 0, exact /\ IsPow2(q[2]))

(* float(v) *)
ToFloat(v) == IF IsFinite(v) THEN FloatResult(RatNum(v), RatDen(v), v.x) ELSE [v EXCEPT !.k = "float"]

(* The type of a + b, a - b, a * b on two numbers, or "TypeError":
   Decimal combines only with Decimal and int. *)
ArithType(a, b) ==
    IF a.k = b.k THEN a.k
    ELSE IF a.k \in {"int", "bool"} /\ b.k \in {"int", "bool"} THEN "int"
    ELSE IF a.k \in {"int", "bool"} THEN b.k
    ELSE IF b.k \in {"int", "bool"} THEN a.k
    ELSE IF a.k = "Decimal" \/ b.k = "Decimal" THEN "TypeError"
    ELSE "float"

(* The number of type K holding n/d (finite operands). *)
NumberOf(K, n, d, exact) ==
    LET q == FractionOf(n, d)
    IN  CASE K = "int" -> PyInt(q[1])
          [] K = "Fraction" -> PyFraction(q[1], q[2])
          [] K = "float" -> FloatResult(n, d, exact)
          [] OTHER -> Num(K, q[1], q[2], 0, exact)

(* Decimal + Decimal (an int operand converts to Decimal first): the
   coefficients aligned on the smaller exponent. *)
DecimalAdd(a, b, sign) ==
    LET e == Min(a.e, b.e)
    IN  Num("Decimal", a.n * Pow10(a.e - e) + sign * b.n * Pow10(b.e - e), 1, e, TRUE)

(* a + b (sign = 1) and a - b (sign = -1). *)
PyAddSub(a, b, sign) ==
    LET K == ArithType(a, b)
        n == RatNum(a) * RatDen(b) + sign * RatNum(b) * RatDen(a)
        d == RatDen(a) * RatDen(b)
    IN  IF K = "TypeError" THEN Raised("TypeError")
        ELSE IF K = "Decimal" /\ a.x /\ b.x THEN Returned(DecimalAdd(a, b, sign))
        ELSE Returned(NumberOf(K, n, d, a.x /\ b.x))

PyAdd(a, b) == PyAddSub(a, b, 1)

PySub(a, b) == PyAddSub(a, b, -1)

(* a * b *)
PyMul(a, b) ==
    LET K == ArithType(a, b)
    IN  IF K = "TypeError" THEN Raised("TypeError")
        ELSE IF K = "Decimal" /\ a.x /\ b.x
             THEN Returned(Num("Decimal", a.n * b.n, 1, a.e + b.e, TRUE))
        ELSE Returned(NumberOf(K, RatNum(a) * RatNum(b), RatDen(a) * RatDen(b), a.x /\ b.x))

(* v / m for an int m > 0: true division. int / int is a float. *)
PyTrueDiv(v, m) ==
    IF ~IsFinite(v) THEN v
    ELSE IF v.k = "Decimal"
         THEN IF v.x THEN DecimalQuotient(v.n, m, v.e)
              ELSE Num("Decimal", FractionOf(v.n, v.d * m)[1], FractionOf(v.n, v.d * m)[2], v.e, FALSE)
    ELSE IF v.k = "Fraction" THEN PyFraction(v.n, v.d * m)
    ELSE FloatResult(v.n, v.d * m, v.x)

(* ---------------- the argument: a list or an iterator ---------------- *)

(* sorted(data) leaving the data as passed. *)
Sorted_asGiven(s) == s

(* sorted(data): ascending by <, equal elements in their original order. *)
RECURSIVE InsertSorted(_, _)
InsertSorted(s, v) ==
    IF s = <<>> THEN <<v>>
    ELSE IF PyLess(v, s[Len(s)]) THEN Append(InsertSorted(SubSeq(s, 1, Len(s) - 1), v), s[Len(s)])
    ELSE Append(s, v)

RECURSIVE SortedFrom(_, _)
SortedFrom(s, acc) == IF s = <<>> THEN acc ELSE SortedFrom(Tail(s), InsertSorted(acc, Head(s)))

Sorted(s) == SortedFrom(s, <<>>)

(* ---------------- mean ---------------- *)

(* mean with len(data) taken of the argument as passed: an iterator has no
   len(). *)
Mean_noList(s, iter, ratioAttr) ==
    IF iter THEN Raised("TypeError")
    ELSE IF Len(s) < 1 THEN Raised("StatisticsError")
    ELSE LET t == Sum(s, PyInt(0), ratioAttr)
         IN  IF t.tag # "ok" THEN t ELSE Returned(PyTrueDiv(t.val, Len(s)))

(* mean(data), lines 351-356; iter: data is an iterator, which line 352
   turns into the list of its items. *)
Mean(s, iter, ratioAttr) ==
    LET n == Len(s)
        t == Sum(s, PyInt(0), ratioAttr)
    IN  IF n < 1 THEN Raised("StatisticsError")
        ELSE IF t.tag # "ok" THEN t
        ELSE Returned(PyTrueDiv(t.val, n))

(* ---------------- median, median_low, median_high ---------------- *)

(* median without the test for empty data: data[-1] + data[0] on an empty
   list is an IndexError. *)
Median_noEmptyTest(s) ==
    LET srt == Sorted(s)
        n == Len(srt)
        h == n \div 2
        t == PyAdd(srt[h], srt[h + 1])
    IN  IF n = 0 THEN Raised("IndexError")
        ELSE IF n % 2 = 1 THEN Returned(srt[h + 1])
        ELSE IF t.tag # "ok" THEN t
        ELSE Returned(PyTrueDiv(t.val, 2))

(* median(data), lines 380-388. Python's data[j] is srt[j + 1] here. *)
Median(s) ==
    LET srt == Sorted(s)
        n == Len(srt)
        h == n \div 2
        t == PyAdd(srt[h], srt[h + 1])
    IN  IF n = 0 THEN Raised("StatisticsError")
        ELSE IF n % 2 = 1 THEN Returned(srt[h + 1])
        ELSE IF t.tag # "ok" THEN t
        ELSE Returned(PyTrueDiv(t.val, 2))

(* median_low taking the upper of the two central values. *)
MedianLow_upper(s) ==
    LET srt == Sorted(s)
        n == Len(srt)
    IN  IF n = 0 THEN Raised("StatisticsError")
        ELSE Returned(srt[n \div 2 + 1])

(* median_low(data), lines 406-413. *)
MedianLow(s) ==
    LET srt == Sorted(s)
        n == Len(srt)
    IN  IF n = 0 THEN Raised("StatisticsError")
        ELSE IF n % 2 = 1 THEN Returned(srt[n \div 2 + 1])
        ELSE Returned(srt[n \div 2])

(* median_high(data), lines 431-435. *)
MedianHigh(s) ==
    LET srt == Sorted(s)
        n == Len(srt)
    IN  IF n = 0 THEN Raised("StatisticsError")
        ELSE Returned(srt[n \div 2 + 1])

(* ---------------- median_grouped ---------------- *)

(* data.index(x): the number of elements before the first one equal to x. *)
RECURSIVE IndexOf(_, _)
IndexOf(s, v) == IF s = <<>> \/ PyEq(Head(s), v) THEN 0 ELSE 1 + IndexOf(Tail(s), v)

(* data.count(x) *)
CountOf(s, v) == Cardinality({j \in 1..Len(s) : PyEq(s[j], v)})

(* median_grouped(data, interval), lines 468-488. *)
MedianGrouped(s, iv) ==
    LET srt == Sorted(s)
        n == Len(srt)
        v == srt[n \div 2 + 1]
        L1 == PySub(v, PyTrueDiv(iv, 2))
        L == IF L1.tag = "ok" THEN L1
             ELSE PySub(ToFloat(v), PyTrueDiv(ToFloat(iv), 2))
        cf == IndexOf(srt, v)
        f == CountOf(srt, v)
        m == PyMul(iv, FloatResult(n - 2 * cf, 2, TRUE))
    IN  IF n = 0 THEN Raised("StatisticsError")
        ELSE IF n = 1 THEN Returned(srt[1])
        ELSE IF v.k = "str" \/ iv.k = "str" THEN Raised("TypeError")
        ELSE IF m.tag # "ok" THEN m
        ELSE PyAdd(L.val, PyTrueDiv(m.val, f))

(* ---------------- mode ---------------- *)

(* collections.Counter(data): <<value, count>> pairs in the order the values
   first occur; values that are equal (1, 1.0, Decimal(1)) share a pair. *)
RECURSIVE CounterOf(_, _)
CounterOf(s, acc) ==
    IF s = <<>> THEN acc
    ELSE LET v == Head(s)
             hit == {j \in 1..Len(acc) : PyEq(acc[j][1], v)}
         IN  CounterOf(Tail(s),
                 IF hit = {} THEN Append(acc, <<v, 1>>)
                 ELSE [j \in 1..Len(acc) |-> IF j \in hit THEN <<acc[j][1], acc[j][2] + 1>> ELSE acc[j]])

(* Counter.most_common(): by falling count, ties in the counter's order. *)
RECURSIVE InsertByCount(_, _)
InsertByCount(t, e) ==
    IF t = <<>> THEN <<e>>
    ELSE IF t[Len(t)][2] < e[2] THEN Append(InsertByCount(SubSeq(t, 1, Len(t) - 1), e), t[Len(t)])
    ELSE Append(t, e)

RECURSIVE MostCommonFrom(_, _)
MostCommonFrom(t, acc) == IF t = <<>> THEN acc ELSE MostCommonFrom(Tail(t), InsertByCount(acc, Head(t)))

MostCommon(t) == MostCommonFrom(t, <<>>)

(* _counts without the loop of lines 296-299 that cuts the table after the
   pairs of the highest frequency. *)
Counts_all(s) == MostCommon(CounterOf(s, <<>>))

(* _counts(data), lines 289-300: the pairs with the highest frequency. *)
Counts(s) ==
    LET table == MostCommon(CounterOf(s, <<>>))
        stop == {j \in 2..Len(table) : table[j][2] # table[1][2]}
    IN  IF table = <<>> \/ stop = {} THEN table
        ELSE SubSeq(table, 1, (CHOOSE j \in stop : \A k \in stop : j <= k) - 1)

(* mode(data), lines 528-536. *)
Mode(s) ==
    LET table == Counts(s)
    IN  IF Len(table) = 1 THEN Returned(table[1][1])
        ELSE Raised("StatisticsError")

(* The call mode(data) or mode(data, max_modes=cap), cap = 0 standing for
   a call without max_modes: mode is defined with the one parameter data
   (line 491), so that binding a second argument is a TypeError. *)
ModeCall(s, cap) == IF cap # 0 THEN Raised("TypeError") ELSE Mode(s)

(* ---------------- the calls of the averages ---------------- *)

StatValues ==
    {PyInt(1), PyInt(2), PyFraction(1, 3), PyDecimal(15, -1), PyDecimal(2, 0),
     PyFloat(2, 1), PyFloat(5, 2)}

Intervals == {PyInt(1), PyInt(2), PyDecimal(1, 0)}

InitStat ==
    /\ data \in SeqsUpTo(StatValues, MaxLen)
    /\ start = PyInt(0)
    /\ interval = PyInt(1)
    /\ isIter \in BOOLEAN
    /\ decimalRatioAttr \in BOOLEAN
    /\ kinds = <<"int", "int">>
    /\ OtherArguments
    /\ pc = "call"
    /\ op = "none"
    /\ i = 0
    /\ T = "int"
    /\ partials = EmptyPartials
    /\ special = NoVal
    /\ outcome = NoOutcome

(* The medians sorting their argument in place (data.sort()). *)
CallerList_sortedInPlace(name, s) ==
    IF name \in {"median", "median_low", "median_high", "median_grouped"} THEN Sorted(s)
    ELSE s

(* The caller's list after the call of a function on it: the functions
   bind their local name to a new list (sorted(data), list(data)) or only
   iterate over the argument; none calls a method that changes it. *)
CallerList(name, s) == s

Call(name, result) ==
    /\ pc = "call"
    /\ op = "none"
    /\ pc' = "done"
    /\ op' = name
    /\ outcome' = result
    /\ data' = CallerList(name, data)
    /\ UNCHANGED <<start, isIter, decimalRatioAttr, kinds, i, T, partials, special>>
    /\ UNCHANGED <<center, rounding, scheme, maxModes>>

CallMean == Call("mean", Mean(data, isIter, decimalRatioAttr)) /\ UNCHANGED interval

CallMedian == Call("median", Median(data)) /\ UNCHANGED interval

CallMedianLow == Call("median_low", MedianLow(data)) /\ UNCHANGED interval

CallMedianHigh == Call("median_high", MedianHigh(data)) /\ UNCHANGED interval

CallMedianGrouped ==
    \E iv \in Intervals : Call("median_grouped", MedianGrouped(data, iv)) /\ interval' = iv

CallMode == Call("mode", ModeCall(data, maxModes)) /\ UNCHANGED interval

NextStat ==
    \/ CallMean
    \/ CallMedian
    \/ CallMedianLow
    \/ CallMedianHigh
    \/ CallMedianGrouped
    \/ CallMode

SpecStat == InitStat /\ [][NextStat]_vars

(* ---------------- the calls of mode ---------------- *)

MaxModeLen == 5

ModeValues == {PyInt(1), PyInt(2), PyFloat(2, 1), PyFraction(1, 3)}

ModeCaps == {0, 1, 2}

InitMode ==
    /\ data \in SeqsUpTo(ModeValues, MaxModeLen)
    /\ maxModes \in ModeCaps
    /\ start = PyInt(0)
    /\ interval = PyInt(1)
    /\ isIter = FALSE
    /\ decimalRatioAttr = TRUE
    /\ kinds = <<"int", "int">>
    /\ center = NoVal
    /\ rounding = 0
    /\ scheme = "none"
    /\ pc = "call"
    /\ op = "none"
    /\ i = 0
    /\ T = "int"
    /\ partials = EmptyPartials
    /\ special = NoVal
    /\ outcome = NoOutcome

NextMode == CallMode

SpecMode == InitMode /\ [][NextMode]_vars

(* ---------------- _ss, variance, pvariance ---------------- *)

(* Whether assert statements are executed: __debug__, which is true unless
   the interpreter runs with -O. *)
Debug == TRUE

(* sum(gen) for a generator expression: items holds, for each pass of the
   loop of lines 172-175, the outcome of evaluating the generator's next
   item; an item that raises ends the call before that pass. *)
RECURSIVE SumGenFrom(_, _, _)
SumGenFrom(st, items, ratioAttr) ==
    IF st.err # "" THEN Raised(st.err)
    ELSE IF items = <<>> THEN SumReturn(st)
    ELSE IF Head(items).tag # "ok" THEN Head(items)
    ELSE SumGenFrom(SumFold(st, Head(items).val, ratioAttr), Tail(items), ratioAttr)

SumGen(items, ratioAttr) == SumGenFrom(SumStart(PyInt(0), ratioAttr), items, ratioAttr)

(* x - c for x in data, and (x - c)**2 for x in data. *)
Deviations(s, c) == [j \in 1..Len(s) |-> PySub(s[j], c)]

SquaredDeviations(s, c) ==
    [j \in 1..Len(s) |->
        IF PySub(s[j], c).tag # "ok" THEN PySub(s[j], c)
        ELSE PyMul(PySub(s[j], c).val, PySub(s[j], c).val)]

(* ss < 0 as line 566 evaluates it. A result that went through rounding
   (x = FALSE) and whose exact value is zero is, as computed, a rounding
   error: negative, zero or positive, which rnd says. The values drawn are
   small, so that rounding changes the sign of no other result. *)
ComputedNegative(ss, rnd) ==
    \/ PyLess(ss, PyInt(0))
    \/ IsFinite(ss) /\ ~ss.x /\ RatNum(ss) = 0 /\ rnd < 0

(* The value of a local variable: {e} is evaluated once, where it is
   assigned, and Local({f(v) : v \in {e}}) is f of that value. *)
Local(S) == CHOOSE v \in S : TRUE

(* Lines 565-567 without the assertion of line 566. *)
SsEnd_noAssert(ss1, t, n, rnd) ==
    IF PyMul(t, t).tag # "ok" THEN PyMul(t, t)
    ELSE PySub(ss1, PyTrueDiv(PyMul(t, t).val, n))

(* _ss, lines 565-567: ss1 is the sum of line 562, t the sum of line 565,
   n is len(data). *)
SsEnd(ss1, t, n, rnd) ==
    IF PyMul(t, t).tag # "ok" THEN PyMul(t, t)
    ELSE Local({IF ss.tag # "ok" THEN ss
                ELSE IF Debug /\ ComputedNegative(ss.val, rnd) THEN Raised("AssertionError")
                ELSE ss : ss \in {PySub(ss1, PyTrueDiv(PyMul(t, t).val, n))}})

(* _ss returning the sum of line 562 without the correction of line 565. *)
SsAbout_uncorrected(s, c, ratioAttr, rnd) == SumGen(SquaredDeviations(s, c), ratioAttr)

(* _ss, lines 562-567, with the center c a number. *)
SsAbout(s, c, ratioAttr, rnd) ==
    Local({IF sums[1].tag # "ok" THEN sums[1]
           ELSE IF sums[2].tag # "ok" THEN sums[2]
           ELSE SsEnd(sums[1].val, sums[2].val, Len(s), rnd) :
               sums \in {<<SumGen(SquaredDeviations(s, c), ratioAttr),
                           SumGen(Deviations(s, c), ratioAttr)>>}})

(* _ss(data, c), lines 559-567, for non-empty data; c = NoVal is None. *)
Ss(s, c, ratioAttr, rnd) ==
    Local({IF c1.tag # "ok" THEN c1 ELSE SsAbout(s, c1.val, ratioAttr, rnd) :
               c1 \in {IF c = NoVal THEN Mean(s, FALSE, ratioAttr) ELSE Returned(c)}})

(* variance(data, xbar), lines 635-641. *)
Variance(s, xbar, ratioAttr, rnd) ==
    IF Len(s) < 2 THEN Raised("StatisticsError")
    ELSE Local({IF ss.tag # "ok" THEN ss ELSE Returned(PyTrueDiv(ss.val, Len(s) - 1)) :
                    ss \in {Ss(s, xbar, ratioAttr, rnd)}})

(* pvariance(data, mu), lines 713-719. *)
Pvariance(s, mu, ratioAttr, rnd) ==
    IF Len(s) < 1 THEN Raised("StatisticsError")
    ELSE Local({IF ss.tag # "ok" THEN ss ELSE Returned(PyTrueDiv(ss.val, Len(s))) :
                    ss \in {Ss(s, mu, ratioAttr, rnd)}})

(* ---------------- the calls of variance and pvariance ---------------- *)

MaxVarLen == 3

VarValues ==
    {PyInt(1), PyInt(2), PyFraction(1, 3), PyDecimal(15, -1), PyFloat(5, 2)}

(* No center, or a given one; 0.1 is the float nearest to 1/10. *)
Centers == {NoVal, PyInt(1), PyFraction(1, 3), PyDecimal(15, -1), FloatResult(1, 10, TRUE)}

Roundings == {-1, 0, 1}

InitVar ==
    /\ data \in SeqsUpTo(VarValues, MaxVarLen)
    /\ center \in Centers
    /\ rounding \in Roundings
    /\ isIter \in BOOLEAN
    /\ start = PyInt(0)
    /\ interval = PyInt(1)
    /\ decimalRatioAttr = TRUE
    /\ kinds = <<"int", "int">>
    /\ scheme = "none"
    /\ maxModes = 0
    /\ pc = "call"
    /\ op = "none"
    /\ i = 0
    /\ T = "int"
    /\ partials = EmptyPartials
    /\ special = NoVal
    /\ outcome = NoOutcome

CallVariance ==
    Call("variance", Variance(data, center, decimalRatioAttr, rounding)) /\ UNCHANGED interval

CallPvariance ==
    Call("pvariance", Pvariance(data, center, decimalRatioAttr, rounding)) /\ UNCHANGED interval

NextVar == CallVariance \/ CallPvariance

SpecVar == InitVar /\ [][NextVar]_vars

(* Every function of the averages and the variances, called on the
   arguments of the variances. *)
NextFrame == NextStat \/ NextVar

SpecFrame == InitVar /\ [][NextFrame]_vars

(* ---------------- _stats_quantiles: the quartile schemes ---------------- *)

(* data[j] for a Python index j: a negative j counts from the end. *)
Item(s, j) ==
    LET k == IF j < 0 THEN j + Len(s) ELSE j
    IN  IF k < 0 \/ k >= Len(s) THEN Raised("IndexError") ELSE Returned(s[k + 1])

(* (a + b)/2 for two subscriptions a, b evaluated in this order. *)
HalfSum(a, b) ==
    IF a.tag # "ok" THEN a
    ELSE IF b.tag # "ok" THEN b
    ELSE IF PyAdd(a.val, b.val).tag # "ok" THEN PyAdd(a.val, b.val)
    ELSE Returned(PyTrueDiv(PyAdd(a.val, b.val).val, 2))

(* The tuple (q1, q2, q3), its items evaluated in the order given. *)
PyTuple(items) == [k |-> "tuple", items |-> items]

Triple(q1, q2, q3) ==
    IF q1.tag # "ok" THEN q1
    ELSE IF q2.tag # "ok" THEN q2
    ELSE IF q3.tag # "ok" THEN q3
    ELSE [tag |-> "ok", val |-> PyTuple(<<q1.val, q2.val, q3.val>>)]

(* The halves' medians of lines 32-37 and 56-61, with the test on n % 4
   of the caller: at is the value of the local i. *)
QuartersAt(s, at, averaged) ==
    IF averaged
    THEN <<HalfSum(Item(s, at), Item(s, at - 1)), HalfSum(Item(s, -at - 1), Item(s, -at))>>
    ELSE <<Item(s, at), Item(s, -at - 1)>>

(* q2 of lines 38-41 and 62-65. *)
MiddleOf(s) ==
    IF Len(s) % 2 = 0 THEN HalfSum(Item(s, Len(s) \div 2 - 1), Item(s, Len(s) \div 2))
    ELSE Item(s, Len(s) \div 2)

(* The order in which q1, q3, q2 are computed: the first to raise ends
   the call. *)
InOrder(q1, q3, q2) ==
    IF q1.tag # "ok" THEN q1 ELSE IF q3.tag # "ok" THEN q3 ELSE Triple(q1, q2, q3)

(* inclusive(data), lines 29-42. *)
Inclusive(s) ==
    LET q == QuartersAt(s, (Len(s) + 1) \div 4, Len(s) % 4 \in {0, 3})
    IN  InOrder(q[1], q[2], MiddleOf(s))

(* exclusive(data), lines 53-66. *)
Exclusive(s) ==
    LET q == QuartersAt(s, Len(s) \div 4, Len(s) % 4 \in {0, 1})
    IN  InOrder(q[1], q[2], MiddleOf(s))

(* The subscripts of data as lines 32-41 and 56-65 write them, for the
   local i = at: those counted from the front (i, i-1, m-1, m) and those
   counted from the end (-i-1, -i). *)
HalvesSubscripts(n, at, averaged) ==
    [front |-> (IF averaged THEN {at, at - 1} ELSE {at})
                   \cup (IF n % 2 = 0 THEN {n \div 2 - 1, n \div 2} ELSE {n \div 2}),
     back |-> IF averaged THEN {-at - 1, -at} ELSE {-at - 1}]

InclusiveSubscripts(n) == HalvesSubscripts(n, (n + 1) \div 4, n % 4 \in {0, 3})

ExclusiveSubscripts(n) == HalvesSubscripts(n, n \div 4, n % 4 \in {0, 1})

(* The rounding modes, lines 166-168. *)
UP == 0

DOWN == 1

EVEN == 2

(* round(x, rounding_mode), lines 170-197, for x = num/den >= 0. *)
Round(num, den, mode) ==
    LET n == num \div den
        f2 == 2 * (num % den)
    IN  IF mode = UP THEN (IF f2 >= den THEN n + 1 ELSE n)
        ELSE IF mode = DOWN THEN (IF f2 > den THEN n + 1 ELSE n)
        ELSE IF f2 > den THEN n + 1
        ELSE IF f2 < den THEN n
        ELSE IF n % 2 = 1 THEN n + 1
        ELSE n

(* ms(data), lines 71-76. The assertion of line 74 reads a name i that
   neither ms nor the module defines: a NameError where assertions run. *)
Ms(s) ==
    LET n == Len(s)
        M == Round(n + 1, 2, EVEN)
        L == Round(n + 1, 4, UP)
    IN  IF Debug THEN Raised("NameError")
        ELSE Triple(Item(s, L - 1), Item(s, M - 1), Item(s, -L - 1))

(* interpolate(data, i), lines 200-206, for the float i = num/den > -1:
   int(i) truncates towards zero and i % 1 is never negative. A float
   whose fraction is zero is used as the index itself, which a list
   rejects; unpacking a slice of fewer than two items fails. *)
Interpolate(s, num, den) ==
    LET j == IF num >= 0 THEN num \div den ELSE 0
        f == FloatResult(num % den, den, TRUE)
        a == s[j + 1]
        b == s[j + 2]
        step == IF PySub(b, a).tag # "ok" THEN PySub(b, a) ELSE PyMul(f, PySub(b, a).val)
    IN  IF num % den = 0 THEN Raised("TypeError")
        ELSE IF j + 2 > Len(s) THEN Raised("ValueError")
        ELSE IF step.tag # "ok" THEN step
        ELSE PyAdd(a, step.val)

(* minitab(data), lines 81-86: M = (n+1)/2 - 1, L = (n+1)/4 - 1,
   U = 3*(n+1)/4 - 1. *)
Minitab(s) ==
    LET n == Len(s)
    IN  Triple(Interpolate(s, n - 3, 4), Interpolate(s, n - 1, 2), Interpolate(s, 3 * n - 1, 4))

(* The indices that the slices data[i:i+2] of interpolate ask for, for the
   three ranks of minitab that have a fraction. *)
MinitabSubscripts(n) ==
    [front |-> UNION {{r[1] \div r[2], r[1] \div r[2] + 1} :
                         r \in {q \in {<<n - 3, 4>>, <<n - 1, 2>>, <<3 * n - 1, 4>>} :
                                    q[1] >= 0 /\ q[1] % q[2] # 0}},
     back |-> {}]

(* excel(data), lines 89-92. *)
Excel(s) == Raised("NotImplementedError")

(* QUARTILE_MAP, lines 97-103, and QUARTILE_ALIASES, lines 109-122. *)
QuartileMap(num, s) ==
    CASE num = 0 -> Inclusive(s)
      [] num = 1 -> Exclusive(s)
      [] num = 2 -> Ms(s)
      [] num = 3 -> Minitab(s)
      [] num = 4 -> Excel(s)
      [] OTHER -> Raised("KeyError")

(* QUARTILE_ALIASES with 'excel' naming a code that QUARTILE_MAP lacks. *)
QuartileAliases_excel5 ==
    [a \in {"inclusive", "incl", "tukey", "hinges", "exclusive", "excl", "m&m", "ti-85",
            "m&s", "minitab", "fp", "excel"} |->
        CASE a \in {"inclusive", "incl", "tukey", "hinges"} -> 0
          [] a \in {"exclusive", "excl", "m&m", "ti-85"} -> 1
          [] a = "m&s" -> 2
          [] a = "minitab" -> 3
          [] a = "fp" -> 4
          [] OTHER -> 5]

QuartileAliases ==
    [a \in {"inclusive", "incl", "tukey", "hinges", "exclusive", "excl", "m&m", "ti-85",
            "m&s", "minitab", "fp", "excel"} |->
        CASE a \in {"inclusive", "incl", "tukey", "hinges"} -> 0
          [] a \in {"exclusive", "excl", "m&m", "ti-85"} -> 1
          [] a = "m&s" -> 2
          [] a = "minitab" -> 3
          [] OTHER -> 4]

(* The keys of QUARTILE_MAP, lines 97-103. *)
QuartileCodes == 0..4

(* quartiles applying the scheme to samples of one or two values too. *)
Quartiles_anyLength(s, name) ==
    IF name \notin DOMAIN QuartileAliases THEN Raised("KeyError")
    ELSE QuartileMap(QuartileAliases[name], Sorted(s))

(* quartiles(data, scheme) of the order-statistics engine: fewer than
   three values are refused, else the scheme's function is applied to the
   sorted data. *)
Quartiles(s, name) ==
    IF Len(s) < 3 THEN Raised("ValueError")
    ELSE IF name \notin DOMAIN QuartileAliases THEN Raised("KeyError")
    ELSE QuartileMap(QuartileAliases[name], Sorted(s))

(* ---------------- the calls of the quartile schemes ---------------- *)

MaxQuartLen == 6

QuartValues == {PyInt(1), PyFloat(5, 2), PyDecimal(3, 0)}

(* range(1, n + 1), the data of the reference values for n = 8..11. *)
Range(n) == [j \in 1..n |-> PyInt(j)]

Ranges == {Range(n) : n \in 8..11}

SchemeNames == {"inclusive", "exclusive", "m&s", "minitab", "excel"}

InitQuart ==
    /\ data \in {s \in SeqsUpTo(QuartValues, MaxQuartLen) : Len(s) >= 3} \cup Ranges
    /\ scheme \in SchemeNames
    /\ center = NoVal
    /\ rounding = 0
    /\ maxModes = 0
    /\ isIter = FALSE
    /\ start = PyInt(0)
    /\ interval = PyInt(1)
    /\ decimalRatioAttr = TRUE
    /\ kinds = <<"int", "int">>
    /\ pc = "call"
    /\ op = "none"
    /\ i = 0
    /\ T = "int"
    /\ partials = EmptyPartials
    /\ special = NoVal
    /\ outcome = NoOutcome

FunctionNames == <<"inclusive", "exclusive", "ms", "minitab", "excel">>

(* A scheme's function called on the data as it is. *)
CallScheme ==
    /\ scheme \in DOMAIN QuartileAliases
    /\ Call(FunctionNames[QuartileAliases[scheme] + 1], QuartileMap(QuartileAliases[scheme], data))
    /\ UNCHANGED interval

CallQuartiles == Call("quartiles", Quartiles(data, scheme)) /\ UNCHANGED interval

NextQuart == CallScheme \/ CallQuartiles

SpecQuart == InitQuart /\ [][NextQuart]_vars

(* ---------------- _stats_quantiles: the quantile schemes ---------------- *)

(* None, the value of a function body that is only "pass". *)
PyNone == PyObject("NoneType")

(* placeholder(data, p), lines 128-129, for p = num/den. *)
Placeholder(s, num, den) == Returned(PyNone)

(* The keys of QUANTILE_MAP, lines 136-147. *)
QuantileCodes == 0..9

(* QUANTILE_MAP, lines 136-147: every key is bound to placeholder
   (r1 = ... = r9 = placeholder, line 131). *)
QuantileMap(code, s, num, den) ==
    IF code \in QuantileCodes THEN Placeholder(s, num, den) ELSE Raised("KeyError")

(* The names bound to the values of QUANTILE_MAP, in the order of its keys. *)
QuantileNames == <<"placeholder", "r1", "r2", "r3", "r4", "r5", "r6", "r7", "r8", "r9">>

(* QUANTILE_ALIASES, lines 153-160. *)
QuantileAliases ==
    [a \in {"sas-1", "sas-2", "sas-3", "sas-4", "sas-5", "excel"} |->
        CASE a = "sas-1" -> 4
          [] a = "sas-2" -> 3
          [] a = "sas-3" -> 1
          [] a = "sas-4" -> 6
          [] a = "sas-5" -> 2
          [] OTHER -> 7]

(* ---------------- the calls through the registries ---------------- *)

MaxFewLen == 3

(* The fractions p = num/den of a quantile call. *)
Fractions == {<<0, 1>>, <<1, 4>>, <<1, 2>>, <<1, 1>>}

InitReg ==
    /\ data \in {s \in SeqsUpTo(QuartValues, MaxFewLen) : Len(s) >= 1}
    /\ scheme \in DOMAIN QuartileAliases \cup DOMAIN QuantileAliases
    /\ center = NoVal
    /\ rounding = 0
    /\ maxModes = 0
    /\ isIter = FALSE
    /\ start = PyInt(0)
    /\ interval = PyInt(1)
    /\ decimalRatioAttr = TRUE
    /\ kinds = <<"int", "int">>
    /\ pc = "call"
    /\ op = "none"
    /\ i = 0
    /\ T = "int"
    /\ partials = EmptyPartials
    /\ special = NoVal
    /\ outcome = NoOutcome

(* QUANTILE_MAP[code](data, p) for a key of the registry. *)
CallQuantileScheme ==
    \E code \in QuantileCodes, f \in Fractions :
        /\ Call(QuantileNames[code + 1], QuantileMap(code, data, f[1], f[2]))
        /\ UNCHANGED interval

(* QUANTILE_MAP[QUANTILE_ALIASES[scheme]](data, p) for an alias. *)
CallQuantileAlias ==
    \E f \in Fractions :
        /\ scheme \in DOMAIN QuantileAliases
        /\ Call("quantile", QuantileMap(QuantileAliases[scheme], data, f[1], f[2]))
        /\ UNCHANGED interval

NextReg == CallQuartiles \/ CallQuantileScheme \/ CallQuantileAlias

SpecReg == InitReg /\ [][NextReg]_vars

(* ---------------- the calls of _decimal_to_ratio ---------------- *)

MaxExp == 2

(* The coefficients and the finite Decimals of the calls: exponents of
   either sign. *)
DecCoefs == {-26, 0, 1, 15}

DecValues == {PyDecimal(c, e) : c \in DecCoefs, e \in (-MaxExp)..MaxExp}

(* The pair _decimal_to_ratio(d) returns, lines 235-246, as Python values:
   10**-exp is an int for exp <= 0 and the float nearest to 1/10**exp for
   exp > 0. *)
DecimalToRatioResult(v) ==
    LET r == DecimalToRatio(v)
    IN  IF r.tag = "ValueError" THEN Raised("ValueError")
        ELSE Returned(PyTuple(<<PyInt(r.n),
                                IF r.d >= 1 THEN PyInt(r.d) ELSE PyFloat(1, Pow10(-r.d))>>))

(* One or two Decimals: the first is the argument of _decimal_to_ratio,
   all are the data of sum. *)
InitDec ==
    /\ data \in {s \in SeqsUpTo(DecValues, 2) : Len(s) >= 1}
    /\ start = PyInt(0)
    /\ interval = PyInt(1)
    /\ isIter = FALSE
    /\ decimalRatioAttr \in BOOLEAN
    /\ kinds = <<"int", "int">>
    /\ OtherArguments
    /\ pc = "call"
    /\ op \in {"none", "sum"}
    /\ i = 0
    /\ T = "int"
    /\ partials = EmptyPartials
    /\ special = NoVal
    /\ outcome = NoOutcome

CallDecimalToRatio ==
    Call("_decimal_to_ratio", DecimalToRatioResult(data[1])) /\ UNCHANGED interval

NextDec == CallDecimalToRatio \/ SumBegin \/ SumLoop \/ SumEnd

SpecDec == InitDec /\ [][NextDec]_vars

(* ---------------- the calls of _coerce_types ---------------- *)

Types == NumericKinds \cup NonNumericKinds \cup {"bool"}

InitCoerce ==
    /\ data = <<>>
    /\ start = PyInt(0)
    /\ interval = PyInt(1)
    /\ isIter = FALSE
    /\ decimalRatioAttr = TRUE
    /\ kinds \in Types \X Types
    /\ OtherArguments
    /\ pc = "call"
    /\ op = "none"
    /\ i = 0
    /\ T = "int"
    /\ partials = EmptyPartials
    /\ special = NoVal
    /\ outcome = NoOutcome

(* _coerce_types(T1, T2) on kinds = <<T1, T2>>; a returned type is the
   type of outcome.val. *)
CallCoerce ==
    /\ Call("_coerce_types",
            IF CoerceTypes(kinds[1], kinds[2]) = "TypeError" THEN Raised("TypeError")
            ELSE Returned(PyObject(CoerceTypes(kinds[1], kinds[2]))))
    /\ UNCHANGED interval

NextCoerce == CallCoerce

SpecCoerce == InitCoerce /\ [][NextCoerce]_vars

(* ---------------- what the properties are stated with ---------------- *)

HasKind(s, K) == \E j \in 1..Len(s) : s[j].k = K

Elements(s) == {s[j] : j \in 1..Len(s)}

Reorderings(s) ==
    {[j \in 1..Len(s) |-> s[f[j]]] :
        f \in {g \in [1..Len(s) -> 1..Len(s)] : \A a, b \in 1..Len(s) : g[a] = g[b] => a = b}}

(* Exact rational arithmetic on <<numerator, denominator>> pairs. *)
Lowest(n, d) == <<n \div Gcd(n, d), d \div Gcd(n, d)>>

RECURSIVE IntegerSum(_)
IntegerSum(s) == IF s = <<>> THEN 0 ELSE Head(s).n + IntegerSum(Tail(s))

RECURSIVE ExactSum(_)
ExactSum(s) ==
    IF s = <<>> THEN <<0, 1>>
    ELSE LET v == Val(Head(s))
             r == ExactSum(Tail(s))
         IN  Lowest(v[1] * r[2] + r[1] * v[2], v[2] * r[2])

(* Whether the rational q can be held exactly by a number of type K. *)
Representable(K, q) ==
    CASE K = "float" -> Strip(q[2], 2) = 1
      [] K = "Decimal" -> Strip(Strip(q[2], 2), 5) = 1
      [] K = "int" -> q[2] = 1
      [] OTHER -> TRUE

(* The value at 0-based rank r of the sample in ascending order, by
   counting: at most r elements are smaller, more than r are not larger. *)
OrderStatistic(s, r) ==
    CHOOSE q \in {Val(v) : v \in Elements(s)} :
        /\ Cardinality({j \in 1..Len(s) : Val(s[j])[1] * q[2] < q[1] * Val(s[j])[2]}) <= r
        /\ Cardinality({j \in 1..Len(s) : Val(s[j])[1] * q[2] <= q[1] * Val(s[j])[2]}) > r

Halfway(a, b) == Lowest(a[1] * b[2] + b[1] * a[2], 2 * a[2] * b[2])

(* ---------------- C1 ---------------- *)

(* C1: for every finite sequence of integers, the empty one included, and
   every integer start, sum(data, start) returns the integer
   start + (sum of the elements); for empty data that is start. *)
C1_SumOfIntegersIsExact ==
    (pc = "done" /\ op = "sum" /\ start.k = "int" /\ \A v \in Elements(data) : v.k = "int")
        => outcome = Returned(PyInt(start.n + IntegerSum(data)))

C1_Witness ==
    /\ pc = "done" /\ op = "sum" /\ start.k = "int" /\ start.n # 0
    /\ Len(data) >= 3 /\ \A v \in Elements(data) : v.k = "int"
    /\ data[1] # data[2]
    /\ outcome = Returned(PyInt(start.n + IntegerSum(data)))

(* ---------------- C2 ---------------- *)

(* The table of _coerce_types' documentation; "N/A" is a TypeError. *)
CoercionTable ==
    [int      |-> [int |-> "int",      Fraction |-> "Fraction", Decimal |-> "Decimal", float |-> "float"],
     Fraction |-> [int |-> "Fraction", Fraction |-> "Fraction", Decimal |-> "N/A",     float |-> "float"],
     Decimal  |-> [int |-> "Decimal",  Fraction |-> "N/A",      Decimal |-> "Decimal", float |-> "float"],
     float    |-> [int |-> "float",    Fraction |-> "float",    Decimal |-> "float",   float |-> "float"]]

(* C2: over int, Fraction, Decimal and float, _coerce_types(A, B) follows the
   documented table for every ordered pair: one result type, or a TypeError
   for Fraction with Decimal in either order. *)
C2_CoerceFollowsTable ==
    (pc = "done" /\ op = "_coerce_types" /\ kinds[1] \in NumericKinds /\ kinds[2] \in NumericKinds)
        => outcome = IF CoercionTable[kinds[1]][kinds[2]] = "N/A" THEN Raised("TypeError")
                     ELSE Returned(PyObject(CoercionTable[kinds[1]][kinds[2]]))

C2_Witness ==
    /\ pc = "done" /\ op = "_coerce_types"
    /\ kinds = <<"Decimal", "Fraction">>
    /\ outcome = Raised("TypeError")

(* ---------------- C3 ---------------- *)

(* C3: sum fails with a TypeError for every sequence that holds both a
   Fraction and a Decimal, whatever else it holds and in whatever order. *)
C3_FractionWithDecimalFails ==
    (pc = "done" /\ op = "sum" /\ HasKind(data, "Fraction") /\ HasKind(data, "Decimal"))
        => outcome.tag = "TypeError"

(* ---------------- C4 ---------------- *)

(* C4: sum raises TypeError, and returns nothing, whenever data holds a
   str, list or tuple, at any position and whatever precedes or follows it. *)
C4_NonNumericRaisesTypeError ==
    (pc = "done" /\ op = "sum" /\ \E K \in NonNumericKinds : HasKind(data, K))
        => outcome.tag = "TypeError"

C4_Witness ==
    /\ pc = "done" /\ op = "sum"
    /\ Len(data) = 3
    /\ data[1].k = "float" /\ data[2].k = "Decimal" /\ data[3].k = "tuple"
    /\ i = 4
    /\ outcome = Raised("TypeError")

(* ---------------- C5 ---------------- *)

SameOutcome(a, b) == a = b \/ (a.tag # "ok" /\ b.tag # "ok")

(* C5: the outcome of sum does not depend on the order of the elements:
   every permutation of the data gives the same value of the same type, or
   fails as well. *)
C5_SumIsOrderIndependent ==
    (pc = "done" /\ op = "sum")
        => \A p \in Reorderings(data) : SameOutcome(Sum(p, start, decimalRatioAttr), outcome)

(* ---------------- C6 ---------------- *)

MeanQuotient(s) == Lowest(ExactSum(s)[1], ExactSum(s)[2] * Len(s))

MeanIsExactQuotient ==
    /\ outcome.tag = "ok"
    /\ Val(outcome.val) = MeanQuotient(data)
    /\ Representable(outcome.val.k, MeanQuotient(data)) => outcome.val.x

(* C6 as stated: for every non-empty sample of n values, a sequence or an
   iterator, mean(data) equals the exact sum of the values divided by n. *)
C6_MeanIsSumOverN ==
    (pc = "done" /\ op = "mean" /\ Len(data) >= 1) => MeanIsExactQuotient

(* C6 as amended: for every non-empty sample of n values, mean(data) equals
   the exact sum of the values divided by n, or, only for a sample that
   holds both a Fraction and a Decimal, fails with the TypeError of sum. *)
C6_MeanIsSumOverNOrRejected ==
    (pc = "done" /\ op = "mean" /\ Len(data) >= 1)
        => \/ MeanIsExactQuotient
           \/ /\ outcome = Raised("TypeError")
              /\ HasKind(data, "Fraction") /\ HasKind(data, "Decimal")

C6_Witness ==
    /\ pc = "done" /\ op = "mean" /\ isIter
    /\ Len(data) = 3
    /\ data[1].k = "float" /\ data[2].k = "int" /\ data[3].k = "Fraction"
    /\ MeanIsExactQuotient
    /\ ~outcome.val.x

(* ---------------- C7 ---------------- *)

(* C7: for every non-empty sample in any order, median returns the middle
   element of the sorted data when n is odd and the arithmetic average of
   the two central sorted elements when n is even. *)
C7_MedianIsMiddleOrAverage ==
    (pc = "done" /\ op = "median" /\ Len(data) >= 1)
        => /\ outcome.tag = "ok"
           /\ IF Len(data) % 2 = 1
              THEN /\ outcome.val \in Elements(data)
                   /\ Val(outcome.val) = OrderStatistic(data, Len(data) \div 2)
              ELSE /\ Val(outcome.val) = Halfway(OrderStatistic(data, Len(data) \div 2 - 1),
                                                 OrderStatistic(data, Len(data) \div 2))
                   /\ outcome.val.x

(* ---------------- C8 ---------------- *)

(* C8: for every non-empty sample, median_low and median_high return an
   element of the data: for even n the values at sorted index n/2 - 1 and
   n/2, for odd n both the middle value. *)
C8_LowAndHighAreDataPoints ==
    (pc = "done" /\ op \in {"median_low", "median_high"} /\ Len(data) >= 1)
        => /\ outcome.tag = "ok"
           /\ outcome.val \in Elements(data)
           /\ Val(outcome.val) =
                  OrderStatistic(data, IF op = "median_low" /\ Len(data) % 2 = 0
                                       THEN Len(data) \div 2 - 1
                                       ELSE Len(data) \div 2)

C8_Witness ==
    /\ pc = "done" /\ op = "median_low"
    /\ Len(data) = 2
    /\ PyLess(data[2], data[1])
    /\ outcome = Returned(data[2])

(* ---------------- C9 ---------------- *)

(* C9: mean, median, median_low, median_high, median_grouped and mode, on
   an empty sample, each fail with StatisticsError, a ValueError. *)
C9_EmptySampleFails ==
    (pc = "done" /\ Len(data) = 0
        /\ op \in {"mean", "median", "median_low", "median_high", "median_grouped", "mode"})
        => /\ outcome = Raised("StatisticsError")
           /\ ExceptionBase(outcome.tag) = "ValueError"

C9_Witness ==
    /\ pc = "done" /\ op = "median" /\ data = <<>>
    /\ outcome = Raised("StatisticsError")

(* ---------------- C10 ---------------- *)

(* C10: doubling a dataset leaves the median unchanged: where median(data)
   returns m, median(data + data) returns a value equal to m. *)
C10_DoublingKeepsMedian ==
    (pc = "done" /\ op = "median" /\ Len(data) >= 1 /\ outcome.tag = "ok")
        => /\ Median(data \o data).tag = "ok"
           /\ PyEq(Median(data \o data).val, outcome.val)

(* ---------------- C11 ---------------- *)

ValuesOf(s) == {Val(v) : v \in Elements(s)}

Frequency(s, q) == Cardinality({j \in 1..Len(s) : Val(s[j]) = q})

MostFrequent(s) == {q \in ValuesOf(s) : \A r \in ValuesOf(s) : Frequency(s, r) <= Frequency(s, q)}

(* C11: for every non-empty sample, mode returns the value of the strictly
   highest frequency when exactly one value attains the maximum frequency,
   and fails with StatisticsError when two or more distinct values share
   the maximum frequency. *)
C11_ModeIsUniqueMostFrequent ==
    (pc = "done" /\ op = "mode" /\ maxModes = 0 /\ Len(data) >= 1)
        => IF Cardinality(MostFrequent(data)) = 1
           THEN /\ outcome.tag = "ok"
                /\ outcome.val \in Elements(data)
                /\ Val(outcome.val) \in MostFrequent(data)
           ELSE outcome = Raised("StatisticsError")

C11_Witness ==
    /\ pc = "done" /\ op = "mode" /\ maxModes = 0
    /\ Len(data) = 5
    /\ Cardinality(ValuesOf(data)) = 3
    /\ Cardinality(MostFrequent(data)) = 2
    /\ outcome = Raised("StatisticsError")

(* ---------------- C12 ---------------- *)

(* C12: mode accepts an optional cap max_modes: when the number of values
   sharing the top frequency is at most max_modes, it returns the list of
   those tied values instead of failing. *)
C12_ModeReturnsTiedValuesUnderCap ==
    (pc = "done" /\ op = "mode" /\ maxModes >= 1 /\ Len(data) >= 1
        /\ Cardinality(MostFrequent(data)) >= 2
        /\ Cardinality(MostFrequent(data)) <= maxModes)
        => /\ outcome.tag = "ok"
           /\ outcome.val.k = "list"

(* ---------------- C13 ---------------- *)

RECURSIVE ExactSumOfSquares(_)
ExactSumOfSquares(s) ==
    IF s = <<>> THEN <<0, 1>>
    ELSE LET v == Val(Head(s))
             r == ExactSumOfSquares(Tail(s))
         IN  Lowest(v[1] * v[1] * r[2] + r[1] * v[2] * v[2], v[2] * v[2] * r[2])

(* SS / m, SS the sum of the squared deviations from the mean, which is
   the sum of the squares less the square of the sum over n. *)
SquaredDeviationsOver(s, m) ==
    LET a == ExactSumOfSquares(s)
        b == ExactSum(s)
    IN  Lowest(a[1] * b[2] * b[2] * Len(s) - b[1] * b[1] * a[2],
               a[2] * b[2] * b[2] * Len(s) * m)

ReturnsExactly(q) ==
    /\ outcome.tag = "ok"
    /\ Val(outcome.val) = q
    /\ Representable(outcome.val.k, q) => outcome.val.x

(* C13: variance(data) returns SS/(n-1) exactly when n >= 2 and fails with
   StatisticsError when n < 2; pvariance(data) returns SS/n exactly when
   n >= 1 and fails with StatisticsError when n = 0. *)
C13_VarianceIsSSOverDegrees ==
    /\ (pc = "done" /\ op = "variance" /\ center = NoVal)
          => IF Len(data) >= 2 THEN ReturnsExactly(SquaredDeviationsOver(data, Len(data) - 1))
             ELSE outcome = Raised("StatisticsError")
    /\ (pc = "done" /\ op = "pvariance" /\ center = NoVal)
          => IF Len(data) >= 1 THEN ReturnsExactly(SquaredDeviationsOver(data, Len(data)))
             ELSE outcome = Raised("StatisticsError")

(* ---------------- C14 ---------------- *)

(* C14: variance and pvariance never return a negative value, for any data
   and any supplied center: a computed sum of squared deviations below
   zero is a failure (assertion) of _ss, not a returned variance. *)
C14_VarianceIsNeverNegative ==
    (pc = "done" /\ op \in {"variance", "pvariance"} /\ outcome.tag = "ok")
        => /\ ~PyLess(outcome.val, PyInt(0))
           /\ ~(RatNum(outcome.val) = 0 /\ ~outcome.val.x /\ rounding < 0)

C14_Witness ==
    /\ pc = "done" /\ op = "variance"
    /\ data = <<PyFloat(5, 2), PyFloat(5, 2), PyFloat(5, 2)>>
    /\ center = PyFraction(1, 3)
    /\ rounding < 0
    /\ outcome = Raised("AssertionError")

(* ---------------- C15 .. C20: the quartile schemes ---------------- *)

IsSorted(s) == \A j \in 1..(Len(s) - 1) : ~PyLess(s[j + 1], s[j])

(* The median of a sample by counting ranks. *)
MedianValue(s) ==
    IF Len(s) % 2 = 1 THEN OrderStatistic(s, Len(s) \div 2)
    ELSE Halfway(OrderStatistic(s, Len(s) \div 2 - 1), OrderStatistic(s, Len(s) \div 2))

(* The value at the 1-based rank num/den of the sample, interpolated
   linearly between the order statistics next to it. *)
ValueAtRank(s, num, den) ==
    LET lo == OrderStatistic(s, num \div den - 1)
        hi == OrderStatistic(s, Min(num \div den, Len(s) - 1))
        f == num % den
    IN  Lowest(lo[1] * hi[2] * den + f * (hi[1] * lo[2] - lo[1] * hi[2]), lo[2] * hi[2] * den)

QuartilesAre(q1, q2, q3) ==
    /\ outcome.tag = "ok"
    /\ outcome.val.k = "tuple"
    /\ Val(outcome.val.items[1]) = q1
    /\ Val(outcome.val.items[2]) = q2
    /\ Val(outcome.val.items[3]) = q3

(* The reference values <<Q1, Q3>> a scheme gives on 1..8, 1..9, 1..10
   and 1..11, as pairs of rationals. *)
OnRanges(r8, r9, r10, r11) ==
    \A n \in 8..11 :
        data = Range(n) =>
            LET r == CASE n = 8 -> r8 [] n = 9 -> r9 [] n = 10 -> r10 [] OTHER -> r11
            IN  /\ outcome.tag = "ok"
                /\ Val(outcome.val.items[1]) = r[1]
                /\ Val(outcome.val.items[3]) = r[2]

(* C15: for sorted data of n >= 3 values, inclusive returns Q2 = median
   and Q1, Q3 = the medians of the lower and upper halves, the median
   element being in both halves when n is odd; on 1..8, 1..9, 1..10, 1..11
   (Q1, Q3) = (2.5, 6.5), (3, 7), (3, 8), (3.5, 8.5). *)
C15_InclusiveIsHalvesWithMedian ==
    (pc = "done" /\ op = "inclusive" /\ Len(data) >= 3 /\ IsSorted(data))
        => /\ QuartilesAre(MedianValue(SubSeq(data, 1, (Len(data) + 1) \div 2)),
                           MedianValue(data),
                           MedianValue(SubSeq(data, Len(data) \div 2 + 1, Len(data))))
           /\ OnRanges(<<<<5, 2>>, <<13, 2>>>>, <<<<3, 1>>, <<7, 1>>>>,
                       <<<<3, 1>>, <<8, 1>>>>, <<<<7, 2>>, <<17, 2>>>>)

(* C16: for sorted data of n >= 3 values, exclusive returns Q2 = median
   and Q1, Q3 = the medians of the lower and upper halves, the median
   element being in neither half when n is odd; on 1..8, 1..9, 1..10,
   1..11 (Q1, Q3) = (2.5, 6.5), (2.5, 7.5), (3, 8), (3, 9). *)
C16_ExclusiveIsHalvesWithoutMedian ==
    (pc = "done" /\ op = "exclusive" /\ Len(data) >= 3 /\ IsSorted(data))
        => /\ QuartilesAre(MedianValue(SubSeq(data, 1, Len(data) \div 2)),
                           MedianValue(data),
                           MedianValue(SubSeq(data, Len(data) - Len(data) \div 2 + 1, Len(data))))
           /\ OnRanges(<<<<5, 2>>, <<13, 2>>>>, <<<<5, 2>>, <<15, 2>>>>,
                       <<<<3, 1>>, <<8, 1>>>>, <<<<3, 1>>, <<9, 1>>>>)

(* C17: for sorted data of n >= 3 values, ms returns without error the
   data points at the 1-based ranks round((n+1)/4) ties up, round((n+1)/2)
   ties to even and round(3(n+1)/4) ties down; on 1..8, 1..9, 1..10, 1..11
   (Q1, Q3) = (2, 7), (3, 7), (3, 8), (3, 9). *)
C17_MsPicksRoundedRanks ==
    (pc = "done" /\ op = "ms" /\ Len(data) >= 3 /\ IsSorted(data))
        => /\ QuartilesAre(Val(data[Round(Len(data) + 1, 4, UP)]),
                           Val(data[Round(Len(data) + 1, 2, EVEN)]),
                           Val(data[Round(3 * (Len(data) + 1), 4, DOWN)]))
           /\ OnRanges(<<<<2, 1>>, <<7, 1>>>>, <<<<3, 1>>, <<7, 1>>>>,
                       <<<<3, 1>>, <<8, 1>>>>, <<<<3, 1>>, <<9, 1>>>>)

(* C18: for sorted data of n >= 3 values, minitab returns the linear
   interpolation between adjacent order statistics at the 1-based ranks
   (n+1)/4, (n+1)/2 and 3(n+1)/4; on 1..8, 1..9, 1..10, 1..11
   (Q1, Q3) = (2.25, 6.75), (2.5, 7.5), (2.75, 8.25), (3, 9). *)
C18_MinitabInterpolatesRanks ==
    (pc = "done" /\ op = "minitab" /\ Len(data) >= 3 /\ IsSorted(data))
        => /\ QuartilesAre(ValueAtRank(data, Len(data) + 1, 4),
                           ValueAtRank(data, Len(data) + 1, 2),
                           ValueAtRank(data, 3 * (Len(data) + 1), 4))
           /\ OnRanges(<<<<9, 4>>, <<27, 4>>>>, <<<<5, 2>>, <<15, 2>>>>,
                       <<<<11, 4>>, <<33, 4>>>>, <<<<3, 1>>, <<9, 1>>>>)

(* C19: for sorted data of n >= 3 values, excel returns a 3-tuple computed
   by linear interpolation at the 1-based ranks 1+(n-1)/4, 1+(n-1)/2 and
   1+3(n-1)/4; on 1..8, 1..9, 1..10, 1..11
   (Q1, Q3) = (2.75, 6.25), (3, 7), (3.25, 7.75), (3.5, 8.5). *)
C19_ExcelInterpolatesRanks ==
    (pc = "done" /\ op = "excel" /\ Len(data) >= 3 /\ IsSorted(data))
        => /\ QuartilesAre(ValueAtRank(data, Len(data) + 3, 4),
                           ValueAtRank(data, Len(data) + 1, 2),
                           ValueAtRank(data, 3 * Len(data) + 1, 4))
           /\ OnRanges(<<<<11, 4>>, <<25, 4>>>>, <<<<3, 1>>, <<7, 1>>>>,
                       <<<<13, 4>>, <<31, 4>>>>, <<<<7, 2>>, <<17, 2>>>>)

SameQuartiles(a, b) ==
    /\ a.tag = "ok" /\ b.tag = "ok"
    /\ \A j \in 1..3 : PyEq(a.val.items[j], b.val.items[j])

(* C20: for every quartile scheme of the registry and every sample of
   n >= 3 values, the quartile result is the same for every permutation of
   the input sequence. *)
C20_QuartilesIgnoreInputOrder ==
    (pc = "done" /\ op = "quartiles" /\ Len(data) >= 3 /\ Len(data) <= MaxQuartLen)
        => /\ outcome.tag = "ok"
           /\ \A p \in Reorderings(data) : SameQuartiles(Quartiles(p, scheme), outcome)

(* ---------------- C21 .. C23: the registries of schemes ---------------- *)

(* C21: every value of QUARTILE_ALIASES is a key of QUARTILE_MAP and every
   value of QUANTILE_ALIASES is a key of QUANTILE_MAP, in every state; so
   no call made through an alias ends in a KeyError. *)
C21_AliasesResolveIntoRegistry ==
    /\ \A a \in DOMAIN QuartileAliases : QuartileAliases[a] \in QuartileCodes
    /\ \A a \in DOMAIN QuantileAliases : QuantileAliases[a] \in QuantileCodes
    /\ (pc = "done" /\ op = "quartiles" /\ scheme \in DOMAIN QuartileAliases)
           => outcome.tag # "KeyError"
    /\ (pc = "done" /\ op = "quantile" /\ scheme \in DOMAIN QuantileAliases)
           => outcome.tag # "KeyError"

C21_Witness ==
    /\ pc = "done"
    /\ op = "quartiles"
    /\ scheme = "ti-85"
    /\ Len(data) = 3
    /\ outcome.tag = "ok"

(* C22: quartiles of a sample of exactly one or exactly two values fails
   with ValueError, whatever the quartile scheme. *)
C22_FewerThanThreeValuesFail ==
    (pc = "done" /\ op = "quartiles" /\ Len(data) \in {1, 2}
        /\ scheme \in DOMAIN QuartileAliases)
        => outcome = Raised("ValueError")

C22_Witness ==
    /\ pc = "done"
    /\ op = "quartiles"
    /\ Len(data) = 2
    /\ scheme = "inclusive"
    /\ outcome = Raised("ValueError")

(* C23: for data of n >= 2 values and 0 <= p <= 1, each of the quantile
   schemes 1-9 of QUANTILE_MAP returns a number, and the schemes 1-3
   return an element of the data. *)
C23_QuantileSchemesReturnNumbers ==
    (pc = "done" /\ Len(data) >= 2
        /\ op \in {QuantileNames[c + 1] : c \in 1..9})
        => /\ outcome.tag = "ok"
           /\ outcome.val.k \in NumericKinds
           /\ op \in {"r1", "r2", "r3"} => \E j \in 1..Len(data) : outcome.val = data[j]

(* ---------------- C24: the caller's data ---------------- *)

ListFunctions ==
    {"median", "median_low", "median_high", "median_grouped", "mean", "mode",
     "variance", "pvariance"}

(* C24: a call of median, median_low, median_high, median_grouped, mean,
   mode, variance or pvariance on a list, whether it returns or raises,
   leaves the caller's list with the same elements in the same order. *)
C24_CallersListIsUnchanged ==
    [][(~isIter /\ op' \in ListFunctions) => data' = data]_vars

C24_Witness ==
    /\ pc = "done"
    /\ op = "median_grouped"
    /\ ~isIter
    /\ Len(data) = 3
    /\ PyLess(data[3], data[1])
    /\ outcome.tag = "ok"

(* ---------------- C25: median_grouped ---------------- *)

RatLess(a, b) == a[1] * b[2] < b[1] * a[2]

(* (x - w/2) + w*(n/2 - cf)/f as a rational, x being the value at sorted
   index n div 2, cf the number of values below x and f the number of
   values equal to x. *)
GroupedMedian(s, w) ==
    LET n == Len(s)
        x == OrderStatistic(s, n \div 2)
        cf == Cardinality({j \in 1..n : RatLess(Val(s[j]), x)})
        f == Cardinality({j \in 1..n : Val(s[j]) = x})
    IN  Lowest(x[1] * w[2] * 2 * f + w[1] * (n - 2 * cf - f) * x[2], x[2] * w[2] * 2 * f)

(* C25: for n >= 2 values median_grouped(data, interval) returns
   (x - interval/2) + interval*(n/2 - cf)/f, and for n = 1 the single
   value unchanged. *)
C25_MedianGroupedInterpolates ==
    (pc = "done" /\ op = "median_grouped" /\ Len(data) >= 1)
        => /\ outcome.tag = "ok"
           /\ IF Len(data) = 1 THEN outcome.val = data[1]
              ELSE Val(outcome.val) = GroupedMedian(data, Val(interval))

(* ---------------- C26: non-finite values in sum ---------------- *)

(* start followed by the data. *)
Summands == <<start>> \o data

(* The signs of the non-finite summands: 1 and -1 for the infinities, 0
   for a NaN. *)
NonFiniteSigns == {Summands[j].n : j \in {k \in 1..Len(Summands) : ~IsFinite(Summands[k])}}

(* C26: when start or data holds a non-finite float (the summands being
   numbers that do not mix Fraction with Decimal), sum returns the sum of
   the non-finite summands alone: the infinity when they are infinities of
   one sign, NaN when infinities of both signs or a NaN are among them;
   never a finite number. *)
C26_NonFiniteSumIgnoresFinite ==
    (/\ pc = "done" /\ op = "sum"
     /\ \E j \in 1..Len(Summands) : Summands[j].k = "float" /\ ~IsFinite(Summands[j])
     /\ \A j \in 1..Len(Summands) : Summands[j].k \in NumericKinds
     /\ ~(HasKind(Summands, "Fraction") /\ HasKind(Summands, "Decimal")))
        => /\ outcome.tag = "ok"
           /\ ~IsFinite(outcome.val)
           /\ outcome.val.n = (IF Cardinality(NonFiniteSigns) = 1
                               THEN CHOOSE g \in NonFiniteSigns : TRUE ELSE 0)

(* ---------------- C27: _decimal_to_ratio ---------------- *)

(* C27: for every finite Decimal d, of either sign and with an exponent of
   either sign, _decimal_to_ratio(d) returns two integers (num, den) with
   den >= 1 and num/den = d; and sum over Decimal data, which converts
   with it where Decimal has no as_integer_ratio, returns the exact sum. *)
C27_DecimalToRatioIsExact ==
    /\ (pc = "done" /\ op = "_decimal_to_ratio")
           => /\ outcome.tag = "ok"
              /\ outcome.val.items[1].k = "int"
              /\ outcome.val.items[2].k = "int"
              /\ outcome.val.items[2].n >= 1
              /\ Lowest(outcome.val.items[1].n, outcome.val.items[2].n) = Val(data[1])
    /\ (pc = "done" /\ op = "sum")
           => /\ outcome.tag = "ok"
              /\ outcome.val.k = "Decimal"
              /\ Val(outcome.val) = ExactSum(data)

(* ---------------- C28: the loop of sum ---------------- *)

(* The sum over the entries {d: n} of partials of n/d, as a rational. *)
RECURSIVE PartialsValue(_, _)
PartialsValue(p, keys) ==
    IF keys = {} THEN <<0, 1>>
    ELSE LET d == CHOOSE k \in keys : TRUE
             r == PartialsValue(p, keys \ {d})
         IN  Lowest(p[d] * r[2] + r[1] * d, d * r[2])

(* start and the first k elements of data. *)
Folded(k) == <<start>> \o SubSeq(data, 1, k)

(* C28: in the loop of sum over finite numbers, once start and the first
   k elements are folded in (k = 0 .. n), the entries of partials add up
   to start + the exact sum of those k elements. *)
C28_PartialsHoldExactSum ==
    (pc = "loop" /\ op = "sum"
        /\ \A j \in 1..i : Folded(i - 1)[j].k \in NumericKinds /\ IsFinite(Folded(i - 1)[j]))
        => /\ special = NoVal
           /\ PartialsValue(partials, DOMAIN partials) = ExactSum(Folded(i - 1))

C28_Witness ==
    /\ pc = "loop"
    /\ op = "sum"
    /\ i = 4
    /\ start = PyFraction(1, 2)
    /\ data = <<PyFraction(1, 2), PyFraction(1, 3), PyFloat(1, 2)>>
    /\ partials[2] = 3
    /\ partials[3] = 1

(* ---------------- C29: the center of the variances ---------------- *)

(* The call of the state made again without the center. *)
WithoutCenter ==
    IF op = "variance" THEN Variance(data, NoVal, decimalRatioAttr, rounding)
    ELSE Pvariance(data, NoVal, decimalRatioAttr, rounding)

(* A finished call of variance (n >= 2) or pvariance (n >= 1) on ints and
   Fractions about an int or Fraction center. *)
RationalCallWithCenter ==
    /\ pc = "done"
    /\ op \in {"variance", "pvariance"}
    /\ Len(data) >= (IF op = "variance" THEN 2 ELSE 1)
    /\ center # NoVal
    /\ center.k \in {"int", "Fraction"}
    /\ \A j \in 1..Len(data) : data[j].k \in {"int", "Fraction"}

(* a == b for two computed numbers: the same value, neither rounded. *)
ComputedEqual(a, b) == Val(a) = Val(b) /\ a.x /\ b.x

(* C29: on ints and Fractions, for every center, variance(data, xbar) ==
   variance(data) and pvariance(data, mu) == pvariance(data), and the
   result is never negative. *)
C29_CenterDoesNotMatter ==
    RationalCallWithCenter
        => /\ outcome.tag = "ok"
           /\ WithoutCenter.tag = "ok"
           /\ ComputedEqual(outcome.val, WithoutCenter.val)
           /\ ~PyLess(outcome.val, PyInt(0))

(* C29 as amended: the two results are the same rational, never negative,
   and equal as computed when the data holds a Fraction, every operation
   then being exact Fraction arithmetic; results on ints alone are floats
   that may differ by their rounding. *)
C29_CenterDoesNotMatterUpToRounding ==
    RationalCallWithCenter
        => /\ outcome.tag = "ok"
           /\ WithoutCenter.tag = "ok"
           /\ Val(outcome.val) = Val(WithoutCenter.val)
           /\ HasKind(data, "Fraction") => ComputedEqual(outcome.val, WithoutCenter.val)
           /\ ~PyLess(outcome.val, PyInt(0))

C29_Witness ==
    /\ pc = "done"
    /\ op = "pvariance"
    /\ data = <<PyFraction(1, 3), PyInt(2), PyInt(1)>>
    /\ center = PyInt(1)
    /\ outcome = Returned(PyFraction(38, 81))

(* ---------------- C30: the bounds of the quartiles ---------------- *)

(* Subscripts inside a sequence of n items: 0 .. n-1 from the front,
   -n .. -1 from the end. *)
SubscriptsInside(n, subs) ==
    /\ subs.front \subseteq 0..(n - 1)
    /\ subs.back \subseteq (-n)..(-1)

PyLessEq(a, b) == ~PyLess(b, a)

(* C30: for ascending-sorted data of n >= 3 values, inclusive, exclusive
   and minitab read only indices inside the data and return a tuple with
   data[0] <= Q1 <= Q2 <= Q3 <= data[n-1]. *)
C30_QuartilesStayInsideData ==
    (pc = "done" /\ op \in {"inclusive", "exclusive", "minitab"}
        /\ Len(data) >= 3 /\ IsSorted(data))
        => /\ SubscriptsInside(Len(data),
                               CASE op = "inclusive" -> InclusiveSubscripts(Len(data))
                                 [] op = "exclusive" -> ExclusiveSubscripts(Len(data))
                                 [] OTHER -> MinitabSubscripts(Len(data)))
           /\ outcome.tag = "ok"
           /\ outcome.val.k = "tuple"
           /\ PyLessEq(data[1], outcome.val.items[1])
           /\ PyLessEq(outcome.val.items[1], outcome.val.items[2])
           /\ PyLessEq(outcome.val.items[2], outcome.val.items[3])
           /\ PyLessEq(outcome.val.items[3], data[Len(data)])

====
